---- MODULE Spec2Model ----
(***************************************************************************)
(* A model of rlearnlibs/raster.py: the RasterStack layer registry, the    *)
(* windowed reader, the prediction dispatcher and the point extractor.     *)
(* Names of maps are sequences of one-character strings, so that           *)
(* split('@') and replace('.', '_') are computed and not assumed.          *)
(***************************************************************************)
EXTENDS Integers, Sequences, FiniteSets, TLC

VARIABLES
    loc,              \* self.loc: ordered mapping key -> RasterRow, as a sequence
    count,            \* self.count
    mtypes,           \* self.mtypes: set of [k |-> full name, v |-> mtype]
    categorical_idx,  \* self._categorical_idx
    call,             \* the last call made on the stack and how it ended
    returned,         \* the RasterStack the last call returned, if any
    rows,             \* Region().rows
    cols,             \* Region().cols
    win,              \* the last list(row_windows(height=h)) and its h
    data,             \* the last result of read() with its arguments
    chunks,           \* the last results of read(window=w) for w in row_windows(h)
    pred,             \* the one call of predict or predict_proba and what it left
    whole,            \* a call of predict with no height and what it left
    points,           \* the point features of the vector map and their attributes
    extracted,        \* what the one call of extract_points returned
    applied           \* a prediction function applied to one window that was read

regvars == <<loc, count, mtypes, categorical_idx, call, returned>>
region == <<rows, cols>>
readvars == <<win, data, chunks>>
predvars == <<pred, whole>>
ptvars == <<points, extracted>>
nonreg == <<rows, cols, win, data, chunks, pred, whole, points, extracted, applied>>
vars == <<loc, count, mtypes, categorical_idx, call, returned, rows, cols,
          win, data, chunks, pred, whole, points, extracted, applied>>

----------------------------------------------------------------------------
(* Bounds of the model. *)

\* longest list handed to append, the categorical setter, the constructor
MaxOther == 2

\* largest region of the reader: rows and columns
MaxRows == 4
MaxCols == 4

\* largest region and window height where only the windows are computed
MaxWinRows == 10
MaxHeight == 11

\* largest region of the prediction dispatcher
MaxPredRows == 3
MaxPredCols == 2

\* most points of the vector map
MaxPoints == 2

\* a collaborator may fail at its first .. MaxFaultAt-th use within a call
MaxFaultAt == 3

----------------------------------------------------------------------------
(* The GRASS database the stack's maps live in. *)

\* mapsets, in search-path order
SearchPath == << <<"u">>, <<"P">> >>

\* the raster maps that exist: name, mapset, storage type and cell pattern
Database ==
    { [name |-> <<"a">>,           mapset |-> <<"u">>, mtype |-> "CELL",  pat |-> "five"],
      [name |-> <<"a">>,           mapset |-> <<"P">>, mtype |-> "FCELL", pat |-> "index"],
      [name |-> <<"b">>,           mapset |-> <<"u">>, mtype |-> "CELL",  pat |-> "nullrow0"],
      [name |-> <<"c", ".", "d">>, mapset |-> <<"u">>, mtype |-> "FCELL", pat |-> "invalid"] }

\* map names a caller may pass: plain, qualified, dotted, and one that does not exist
MapNames ==
    { <<"a">>, <<"a", "@", "P">>, <<"b">>, <<"c", ".", "d">>, <<"z">> }

\* labels a caller may pass to drop
Labels == { <<"a">>, <<"b">>, <<"c", "_", "d">>, <<"z">> }

\* names a caller may pass to the categorical setter
CatNames == { <<"a", "@", "u">>, <<"b">> }

SeqsUpTo(S, lo, hi) == UNION { [1..n -> S] : n \in lo..hi }

----------------------------------------------------------------------------
(* String helpers. *)

HasAt(s) == \E i \in 1..Len(s) : s[i] = "@"

RECURSIVE BeforeAt(_)
\* s.split('@')[0]
BeforeAt(s) ==
    IF s = <<>> \/ Head(s) = "@" THEN <<>>
    ELSE <<Head(s)>> \o BeforeAt(Tail(s))

RECURSIVE AfterAt(_)
\* the mapset part of a qualified name
AfterAt(s) ==
    IF s = <<>> THEN <<>>
    ELSE IF Head(s) = "@" THEN Tail(s)
    ELSE AfterAt(Tail(s))

\* s.replace('.', '_')
ReplaceDots(s) == [i \in 1..Len(s) |-> IF s[i] = "." THEN "_" ELSE s[i]]

Exists(name, mapset) == \E r \in Database : r.name = name /\ r.mapset = mapset

RECURSIVE FindInPath(_, _)
FindInPath(name, path) ==
    IF path = <<>> THEN <<>>
    ELSE IF Exists(name, Head(path)) THEN Head(path)
    ELSE FindInPath(name, Tail(path))

\* get_mapset_raster(i): the mapset a (possibly qualified) name resolves to,
\* the empty string when the map is not found
get_mapset_raster(m) ==
    IF HasAt(m)
    THEN IF Exists(BeforeAt(m), AfterAt(m)) THEN AfterAt(m) ELSE <<>>
    ELSE FindInPath(m, SearchPath)

RasterRow(name, mapset) == CHOOSE r \in Database : r.name = name /\ r.mapset = mapset

\* src.fullname() / src.name_mapset()
fullname(src) == src.name \o <<"@">> \o src.mapset

----------------------------------------------------------------------------
(* The layer registry. *)

keys(l) == { l[i].key : i \in 1..Len(l) }

\* RasterStack.names
names(l) == [i \in 1..Len(l) |-> fullname(l[i])]

\* dict.update({k: v})
DictUpdate(d, k, v) == { p \in d : p.k # k } \cup { [k |-> k, v |-> v] }

RECURSIVE AddLayers(_, _, _)
\* the loop of the layers setter over zip(raster_names, mapset_names)
AddLayers(mapnames, l, mt) ==
    IF mapnames = <<>> THEN [loc |-> l, mtypes |-> mt, err |-> "none"]
    ELSE LET name   == BeforeAt(Head(mapnames))
             mapset == get_mapset_raster(Head(mapnames))
         IN  IF ~Exists(name, mapset)
             THEN [loc |-> l, mtypes |-> mt, err |-> "fatal"]
             ELSE LET src        == RasterRow(name, mapset)
                      ras_name   == BeforeAt(src.name)
                      valid_name == ReplaceDots(ras_name)
                  IN  IF valid_name \in keys(l)
                      THEN [loc |-> l, mtypes |-> mt, err |-> "ValueError"]
                      ELSE AddLayers(Tail(mapnames),
                                     Append(l, [key |-> valid_name, name |-> src.name,
                                                mapset |-> src.mapset, mtype |-> src.mtype,
                                                pat |-> src.pat]),
                                     DictUpdate(mt, fullname(src), src.mtype))

\* the layers setter: loc, count and mtypes are reset before the loop runs
layers_setter(mapnames) ==
    LET r == AddLayers(mapnames, <<>>, {})
    IN  [loc |-> r.loc, count |-> Len(mapnames), mtypes |-> r.mtypes, err |-> r.err]

NoStack == [some |-> FALSE, loc |-> <<>>, count |-> 0, mtypes |-> {}]

\* RasterStack(rasters=...): a fresh object on which the setter runs
RasterStackNew(rasters) ==
    LET r == layers_setter(rasters)
    IN  IF r.err = "none"
        THEN [some |-> TRUE, loc |-> r.loc, count |-> r.count, mtypes |-> r.mtypes]
        ELSE NoStack

\* the list drop hands to the setter; labels is only tested for membership, so
\* it is modelled as the set of its elements
subset_names(labels) ==
    SelectSeq(names(loc),
              LAMBDA fn : \E i \in 1..Len(loc) :
                  /\ fullname(loc[i]) = fn
                  /\ loc[i].key \notin labels)

\* list(self.layers.keys())
keylist(l) == [i \in 1..Len(l) |-> l[i].key]

SetLayers(op, mapnames) ==
    LET r == layers_setter(mapnames)
    IN  /\ loc' = r.loc
        /\ count' = r.count
        /\ mtypes' = r.mtypes
        /\ call' = [op |-> op, err |-> r.err, in_place |-> TRUE]
        /\ returned' = NoStack
        /\ UNCHANGED <<categorical_idx, nonreg>>

NewStack(op, rasters) ==
    LET r == layers_setter(rasters)
    IN  /\ returned' = RasterStackNew(rasters)
        /\ call' = [op |-> op, err |-> r.err, in_place |-> FALSE]
        /\ UNCHANGED <<loc, count, mtypes, categorical_idx, nonreg>>

append(other, in_place) ==
    IF in_place
    THEN SetLayers("append", keylist(loc) \o other)
    ELSE NewStack("append", names(loc) \o other)

drop(labels, in_place) ==
    IF in_place
    THEN SetLayers("drop", subset_names(labels))
    ELSE NewStack("drop", subset_names(labels))

\* names.index(n), 0-based; -1 stands for the ValueError
IndexOf(s, n) ==
    IF \E i \in 1..Len(s) : s[i] = n
    THEN (CHOOSE i \in 1..Len(s) : s[i] = n /\ \A j \in 1..(i-1) : s[j] # n) - 1
    ELSE -1

categorical_setter(cnames) ==
    LET indexes == [i \in 1..Len(cnames) |-> IndexOf(names(loc), cnames[i])]
        bad     == \E i \in 1..Len(cnames) : indexes[i] = -1
    IN  /\ categorical_idx' = IF bad THEN categorical_idx ELSE indexes
        /\ call' = [op |-> "categorical", err |-> IF bad THEN "fatal" ELSE "none",
                    in_place |-> TRUE]
        /\ returned' = NoStack
        /\ UNCHANGED <<loc, count, mtypes, nonreg>>

----------------------------------------------------------------------------
(* The windowed reader. *)

\* self._cell_nodata
cell_nodata == -2147483647 - 1

\* cell values of a float array: a finite number, not-a-number, infinity
Num(v) == [k |-> "num", v |-> v]
NaN == [k |-> "nan", v |-> 0]
Inf == [k |-> "inf", v |-> 0]

\* the cell of an open RasterRow at 0-based (r, c): a CELL null reads as the
\* integer sentinel, an FCELL null as not-a-number
CellValue(src, r, c) ==
    CASE src.pat = "five"     -> Num(5)
      [] src.pat = "index"    -> Num(10 * r + c)
      [] src.pat = "nullrow0" -> IF r = 0 THEN Num(cell_nodata) ELSE Num(1)
      [] src.pat = "invalid"  -> IF r = c THEN NaN
                                 ELSE IF r = c + 1 THEN Inf ELSE Num(2)

\* f[row]
RowOf(src, r) == [j \in 1..cols |-> CellValue(src, r, j - 1)]

RECURSIVE WindowsFromNoClip(_, _, _)
\* row_windows without the clipping of the last window
WindowsFromNoClip(row, nrows, height) ==
    IF row >= nrows THEN <<>>
    ELSE << <<row, row + height>> >> \o WindowsFromNoClip(row + height, nrows, height)

RECURSIVE WindowsFrom(_, _, _)
\* the generator of row_windows from range(row, region.rows, height)
WindowsFrom(row, nrows, height) ==
    IF row >= nrows THEN <<>>
    ELSE << IF row + height <= nrows THEN <<row, row + height>> ELSE <<row, nrows>> >>
         \o WindowsFrom(row + height, nrows, height)

\* list(self.row_windows(height=height))
row_windows(height) == WindowsFrom(0, rows, height)

\* the arguments of read: None, or a value
None == [some |-> FALSE, a |-> 0, b |-> 0]
Row(i) == [some |-> TRUE, a |-> i, b |-> 0]
Window(w) == [some |-> TRUE, a |-> w[1], b |-> w[2]]

Abs(x) == IF x < 0 THEN -x ELSE x

NoMask == [nomask |-> TRUE, arr |-> <<>>]

\* range(row_start, row_stop) taken with its end included
RowIncrsInclusive(row_start, row_stop) ==
    [i \in 1..(row_stop - row_start + 1) |-> row_start + i - 1]

\* [i for i in range(row_start, row_stop)]
RowIncrs(row_start, row_stop) ==
    [i \in 1..(row_stop - row_start) |-> row_start + i - 1]

\* np.ma.masked_equal(data, value): the mask shrinks to nomask when no cell matches
masked_equal(values, value) ==
    LET arr == [b \in 1..Len(values) |-> [i \in 1..Len(values[b]) |->
                 [j \in 1..Len(values[b][i]) |-> values[b][i][j] = Num(value)]]]
        any == \E b \in 1..Len(arr) : \E i \in 1..Len(arr[b]) :
                 \E j \in 1..Len(arr[b][i]) : arr[b][i][j]
    IN  IF any THEN [nomask |-> FALSE, arr |-> arr] ELSE NoMask

\* masked_invalid that drops the mask its argument already has
masked_invalid_only(values, mask) ==
    [nomask |-> FALSE,
     arr |-> [b \in 1..Len(values) |-> [i \in 1..Len(values[b]) |->
               [j \in 1..Len(values[b][i]) |-> values[b][i][j].k # "num"]]]]

\* np.ma.masked_invalid(data): non-finite cells or'ed with the mask data has
masked_invalid(values, mask) ==
    [nomask |-> FALSE,
     arr |-> [b \in 1..Len(values) |-> [i \in 1..Len(values[b]) |->
               [j \in 1..Len(values[b][i]) |->
                  \/ values[b][i][j].k # "num"
                  \/ (~mask.nomask /\ mask.arr[b][i][j])]]]]

\* lines 358-361: a scalar mask is replaced by an all-False array of data's shape
mask_array(values, mask) ==
    IF mask.nomask
    THEN [nomask |-> FALSE,
          arr |-> [b \in 1..Len(values) |-> [i \in 1..Len(values[b]) |->
                    [j \in 1..Len(values[b][i]) |-> FALSE]]]]
    ELSE mask

NoRead == [some |-> FALSE, err |-> "none", row |-> None, window |-> None,
           shape |-> <<0, 0, 0>>, values |-> <<>>, mask |-> NoMask]

\* RasterStack.read(row, window) on the stack (l, cnt).  The inner loop rebinds
\* row to the rows it reads; "row or window" stays true when it was true.
read(l, cnt, row, window) ==
    LET usewin    == window.some
        userow    == ~usewin /\ row.some /\ row.a # 0
        partial   == usewin \/ userow
        row_start == IF usewin THEN window.a ELSE row.a
        row_stop  == IF usewin THEN window.b ELSE row.a + 1
        height    == IF usewin THEN Abs(row_stop - row_start)
                     ELSE IF userow THEN 1 ELSE rows
        shape     == <<cnt, height, cols>>
        rowincrs  == RowIncrs(row_start, row_stop)
        failed    == \/ Len(l) > cnt
                     \/ /\ partial /\ l # <<>>
                        /\ \/ Len(rowincrs) > height
                           \/ \E i \in 1..Len(rowincrs) : rowincrs[i] >= rows
        values    == [b \in 1..cnt |-> [i \in 1..height |->
                        IF b <= Len(l) /\ (~partial \/ i <= Len(rowincrs))
                        THEN RowOf(l[b], IF partial THEN rowincrs[i] ELSE i - 1)
                        ELSE [j \in 1..cols |-> Num(0)]]]
        m1        == masked_equal(values, cell_nodata)
        m2        == masked_invalid(values, m1)
    IN  IF failed
        THEN [NoRead EXCEPT !.some = TRUE, !.err = "fatal", !.row = row, !.window = window]
        ELSE [some |-> TRUE, err |-> "none", row |-> row, window |-> window,
              shape |-> shape, values |-> values, mask |-> mask_array(values, m2)]

NoWin == [some |-> FALSE, height |-> 0, list |-> <<>>]
NoChunks == [some |-> FALSE, height |-> 0, list |-> <<>>]

ReadIdle == win = NoWin /\ data = NoRead /\ chunks = NoChunks

\* list(stack.row_windows(height=h))
DoRowWindows ==
    \E h \in 1..MaxHeight :
        /\ win' = [some |-> TRUE, height |-> h, list |-> row_windows(h)]
        /\ UNCHANGED <<regvars, region, data, chunks, predvars, ptvars, applied>>

\* stack.read()
DoReadAll ==
    /\ data' = read(loc, count, None, None)
    /\ UNCHANGED <<regvars, region, win, chunks, predvars, ptvars, applied>>

\* [stack.read(window=w) for w in stack.row_windows(height=h)]
DoReadWindows ==
    \E h \in 1..rows :
        LET ws == row_windows(h)
        IN  /\ chunks' = [some |-> TRUE, height |-> h,
                          list |-> [i \in 1..Len(ws) |-> read(loc, count, None, Window(ws[i]))]]
            /\ UNCHANGED <<regvars, region, win, data, predvars, ptvars, applied>>

\* stack.read(row=i) for a row index of the region
DoReadRow ==
    \E i \in 0..(rows - 1) :
        /\ data' = read(loc, count, Row(i), None)
        /\ UNCHANGED <<regvars, region, win, chunks, predvars, ptvars, applied>>

----------------------------------------------------------------------------
(* The estimator (external): what its calls return for one pixel. *)

\* estimators with a predict method: a constant integer label, a real-valued
\* regression, a two-target regression
PredictEsts == {"one", "sum", "multi2"}

\* estimators with a predict_proba method, of two and of three classes
ProbaEsts == {"p2", "p3"}

RECURSIVE SumOf(_)
SumOf(px) == IF px = <<>> THEN 0 ELSE Head(px).v + SumOf(Tail(px))

Pct(px) == SumOf(px) % 100

\* estimator.predict on one sample: the values of its targets
EstPredict(est, px) ==
    CASE est = "one"    -> << Num(1) >>
      [] est = "sum"    -> << Num(SumOf(px)) >>
      [] est = "multi2" -> << Num(SumOf(px)), Num(SumOf(px) + 1) >>

\* estimator.predict_proba on one sample: one value per class (in percent,
\* offset by 1000 per class so that the columns cannot be confused)
EstProba(est, px) ==
    CASE est = "p2" -> << Num(100 - Pct(px)), Num(1000 + Pct(px)) >>
      [] est = "p3" -> << Num(Pct(px)), Num(1000 + Pct(px)),
                          Num(2000 + Pct(px)) >>

\* np.finfo(result.dtype) succeeds: the estimator returns reals
EstFloat(est) == est # "one"

\* the estimator rejects a matrix with no feature column or a non-finite entry
EstAccepts(flat) ==
    \A n \in 1..Len(flat) : flat[n] # <<>> /\ \A b \in 1..Len(flat[n]) : flat[n][b].k = "num"

----------------------------------------------------------------------------
(* The prediction functions. *)

\* img.transpose(1, 2, 0).reshape((n_samples, n_features)) of a 3d array
Flatten(arr, shape) ==
    [n \in 1..(shape[2] * shape[3]) |->
        [b \in 1..shape[1] |-> arr[b][((n - 1) \div shape[3]) + 1][((n - 1) % shape[3]) + 1]]]

\* np.ma.filled(flat_pixels, -99999)
FilledFlat(flat, flatmask) ==
    [n \in 1..Len(flat) |-> [b \in 1..Len(flat[n]) |->
        IF flatmask[n][b] THEN Num(-99999) ELSE flat[n][b]]]

\* mask.any(axis=1) of the flat mask
AnyBand(flatmask) == [n \in 1..Len(flatmask) |-> \E b \in 1..Len(flatmask[n]) : flatmask[n][b]]

FuncError == [err |-> "error", shape |-> <<0, 0, 0>>, values |-> <<>>, mask |-> <<>>]

\* RasterStack._pred_fun(img, estimator).  A 2d estimator result cannot take
\* the 1d mask (or, for a single pixel, the reshape to (1, rows, cols)).
pred_fun(img, est) ==
    LET h        == img.shape[2]
        w        == img.shape[3]
        flatmask == Flatten(img.mask.arr, img.shape)
        flat     == FilledFlat(Flatten(img.values, img.shape), flatmask)
        result   == [n \in 1..Len(flat) |-> EstPredict(est, flat[n])]
        mask     == AnyBand(flatmask)
    IN  IF ~EstAccepts(flat) THEN FuncError
        ELSE IF \E n \in 1..Len(result) : Len(result[n]) # 1 THEN FuncError
        ELSE [err |-> "none", shape |-> <<1, h, w>>,
              values |-> << [i \in 1..h |-> [j \in 1..w |-> result[(i - 1) * w + j][1]]] >>,
              mask   |-> << [i \in 1..h |-> [j \in 1..w |-> mask[(i - 1) * w + j]]] >>]

\* RasterStack._prob_fun(img, estimator)
prob_fun(img, est) ==
    LET h        == img.shape[2]
        w        == img.shape[3]
        flatmask == Flatten(img.mask.arr, img.shape)
        flat     == FilledFlat(Flatten(img.values, img.shape), flatmask)
        result   == [n \in 1..Len(flat) |-> EstProba(est, flat[n])]
        nclass   == Len(result[1])
        any2d    == AnyBand(flatmask)
        \* mask2d.min(): True only when every pixel of the window is masked
        min2d    == \A n \in 1..Len(any2d) : any2d[n]
        \* np.where(mask2d != mask2d.min(), True, False)
        mask2d   == [n \in 1..Len(any2d) |-> any2d[n] # min2d]
    IN  IF ~EstAccepts(flat) THEN FuncError
        ELSE [err |-> "none", shape |-> <<nclass, h, w>>,
              values |-> [c \in 1..nclass |-> [i \in 1..h |-> [j \in 1..w |->
                             result[(i - 1) * w + j][c]]]],
              mask   |-> [c \in 1..nclass |-> [i \in 1..h |-> [j \in 1..w |->
                             mask2d[(i - 1) * w + j]]]]]

\* RasterStack._predfun_multioutput(img, estimator): the pixels are handed to
\* the estimator unfilled, with whatever lies under the mask
predfun_multioutput(img, est) ==
    LET h        == img.shape[2]
        w        == img.shape[3]
        flat     == Flatten(img.values, img.shape)
        mask2d   == AnyBand(Flatten(img.mask.arr, img.shape))
        result   == [n \in 1..Len(flat) |-> EstPredict(est, flat[n])]
        ntarget  == Len(result[1])
    IN  IF ~EstAccepts(flat) THEN FuncError
        \* result.shape[1] of the 1d result of a single-target estimator
        ELSE IF est \in {"one", "sum"} THEN FuncError
        ELSE [err |-> "none", shape |-> <<ntarget, h, w>>,
              values |-> [t \in 1..ntarget |-> [i \in 1..h |-> [j \in 1..w |->
                             result[(i - 1) * w + j][t]]]],
              mask   |-> [t \in 1..ntarget |-> [i \in 1..h |-> [j \in 1..w |->
                             mask2d[(i - 1) * w + j]]]]]

\* func(arr, estimator) for the function predict or predict_proba chose
Apply(func, img, est) ==
    CASE func = "pred"  -> pred_fun(img, est)
      [] func = "prob"  -> prob_fun(img, est)
      [] func = "multi" -> predfun_multioutput(img, est)

NoApplied == [some |-> FALSE, func |-> "none", est |-> "none", img |-> NoRead,
              out |-> FuncError]

ApplyIdle == applied = NoApplied

\* func(stack.read(window=w), estimator) for a window w of row_windows(h)
ApplyTo(func, ests) ==
    /\ ~applied.some
    /\ \E est \in ests, h \in 1..rows :
          \E n \in 1..Len(row_windows(h)) :
              LET img == read(loc, count, None, Window(row_windows(h)[n]))
              IN  /\ img.err = "none"
                  /\ applied' = [some |-> TRUE, func |-> func, est |-> est, img |-> img,
                                  out |-> Apply(func, img, est)]
    /\ UNCHANGED <<regvars, region, readvars, predvars, ptvars>>

\* stack._pred_fun(img, estimator)
DoPredFun == ApplyTo("pred", PredictEsts)

\* stack._prob_fun(img, estimator)
DoProbFun == ApplyTo("prob", ProbaEsts)

\* stack._predfun_multioutput(img, estimator)
DoPredfunMultioutput == ApplyTo("multi", PredictEsts)

\* np.ma.filled(result, nodata)
Filled(result, nodata) ==
    [c \in 1..Len(result.values) |-> [i \in 1..Len(result.values[c]) |->
        [j \in 1..Len(result.values[c][i]) |->
            IF result.mask[c][i][j] THEN nodata ELSE result.values[c][i][j]]]]

----------------------------------------------------------------------------
(* The prediction dispatcher. *)

\* the output argument of predict and predict_proba
OutputName == <<"o", "u", "t">>

\* str(label) of a one-digit label
Str(n) == <<"0", "1", "2", "3", "4", "5", "6", "7", "8", "9">>[n + 1]

\* output + '_' + str(label)
RasterName(output, label) == output \o <<"_">> \o <<Str(label)>>

\* a failure of a collaborator: the at-th open, read, estimator call or window
\* write of the call fails
NoFault == [stage |-> "none", at |-> 0]
Faults == {NoFault} \cup [stage : {"open", "read", "predict", "write"}, at : 1..MaxFaultAt]
Fails(fault, stage, n) == fault.stage = stage /\ fault.at = n

\* RasterRow(name).open('w', mtype=...)
Opened(name, mtype) == [name |-> name, mtype |-> mtype, rows |-> <<>>, open |-> TRUE]

\* dst.close() for every handle of a list
CloseAll(dst) == [i \in 1..Len(dst) |-> [dst[i] EXCEPT !.open = FALSE]]

\* the row loop that drops the last row of the window
PutRowsButLast(d, band) == [d EXCEPT !.rows = @ \o SubSeq(band, 1, Len(band) - 1)]

\* for row in range(result.shape[1]): dst.put_row(result[idx, row, :])
PutRows(d, band) == [d EXCEPT !.rows = @ \o band]

RECURSIVE WriteWindow(_, _, _, _)
\* for i, arr_index in enumerate(indexes): the rows of result[arr_index] go to
\* dst[i]; an index the result does not have raises after the earlier writes
WriteWindow(filled, indexes, dst, i) ==
    IF i > Len(indexes) THEN [err |-> "none", dst |-> dst]
    ELSE IF indexes[i] >= Len(filled) \/ i > Len(dst) THEN [err |-> "fatal", dst |-> dst]
    ELSE WriteWindow(filled, indexes,
                     [dst EXCEPT ![i] = PutRows(dst[i], filled[indexes[i] + 1])], i + 1)

RECURSIVE RunWindows(_, _, _, _, _, _, _, _, _)
\* the window loop of _predict_multi (and of predict, with indexes = [0]) from
\* the k-th window on; base is the number of reads and estimator calls made
\* before the loop
RunWindows(ws, k, func, est, indexes, nodata, dst, fault, base) ==
    IF k > Len(ws) THEN [err |-> "none", dst |-> dst]
    ELSE LET arr    == read(loc, count, None, Window(ws[k]))
             result == Apply(func, arr, est)
             wr     == WriteWindow(Filled(result, nodata), indexes, dst, 1)
         IN  IF Fails(fault, "read", base + k) \/ arr.err # "none"
             THEN [err |-> "fatal", dst |-> dst]
             ELSE IF Fails(fault, "predict", base + k) \/ result.err # "none"
             THEN [err |-> "fatal", dst |-> dst]
             ELSE IF Fails(fault, "write", k)
             THEN [err |-> "fatal", dst |-> dst]
             ELSE IF wr.err # "none"
             THEN wr
             ELSE RunWindows(ws, k + 1, func, est, indexes, nodata, wr.dst, fault, base)

RECURSIVE OpenAll(_, _, _, _)
\* lines 658-661: the output rasters are opened one by one, outside the try
OpenAll(class_labels, i, dst, fault) ==
    IF i > Len(class_labels) THEN [err |-> "none", dst |-> dst]
    ELSE IF Fails(fault, "open", i) THEN [err |-> "error", dst |-> dst]
    ELSE OpenAll(class_labels, i + 1,
                 Append(dst, Opened(RasterName(OutputName, class_labels[i]), "FCELL")), fault)

\* RasterStack._predict_multi.  Without a height, rastername is not defined
\* when the first raster is to be written; the bare except turns that into
\* gs.fatal.
predict_multi(est, indexes, class_labels, height, func, fault, base) ==
    IF height.some
    THEN LET opened == OpenAll(class_labels, 1, <<>>, fault)
             run    == RunWindows(row_windows(height.a), 1, func, est, indexes, NaN,
                                  opened.dst, fault, base)
         IN  IF opened.err # "none"
             THEN [err |-> opened.err, outputs |-> opened.dst]
             ELSE [err |-> run.err, outputs |-> CloseAll(run.dst)]
    ELSE LET arr    == read(loc, count, None, None)
             result == Apply(func, arr, est)
         IN  IF Fails(fault, "read", base + 1) \/ arr.err # "none"
             THEN [err |-> "fatal", outputs |-> <<>>]
             ELSE IF Fails(fault, "predict", base + 1) \/ result.err # "none"
             THEN [err |-> "fatal", outputs |-> <<>>]
             ELSE IF indexes = <<>>
             THEN [err |-> "none", outputs |-> <<>>]
             ELSE [err |-> "fatal", outputs |-> <<>>]

\* numpy2raster(array, mtype, rastname, overwrite): opens, writes every row, closes
numpy2raster(band, mtype, name, fault) ==
    IF Fails(fault, "open", 1) THEN [err |-> "error", outputs |-> <<>>]
    ELSE IF Fails(fault, "write", 1)
    THEN [err |-> "error", outputs |-> CloseAll(<< Opened(name, mtype) >>)]
    ELSE [err |-> "none", outputs |-> CloseAll(<< PutRows(Opened(name, mtype), band) >>)]

\* lines 571-600 of predict: one output raster, windowed or in one shot
predict_single(est, height, func, mtype, nodata, fault) ==
    IF height.some
    THEN LET run == RunWindows(row_windows(height.a), 1, func, est, <<0>>, nodata,
                               << Opened(OutputName, mtype) >>, fault, 1)
         IN  IF Fails(fault, "open", 1)
             THEN [err |-> "error", outputs |-> <<>>]
             ELSE [err |-> IF run.err = "none" THEN "none" ELSE "error",
                   outputs |-> CloseAll(run.dst)]
    ELSE LET arr    == read(loc, count, None, None)
             result == Apply(func, arr, est)
         IN  IF Fails(fault, "read", 2) \/ arr.err # "none"
             THEN [err |-> "fatal", outputs |-> <<>>]
             ELSE IF Fails(fault, "predict", 2) \/ result.err # "none"
             THEN [err |-> "error", outputs |-> <<>>]
             ELSE numpy2raster(Filled(result, nodata)[1], mtype, OutputName, fault)

\* RasterStack.predict(estimator, output, height)
predict(est, height, fault) ==
    LET test_window == row_windows(1)[1]
        img         == read(loc, count, None, Window(test_window))
        result      == pred_fun(img, est)
        mtype       == IF EstFloat(est) THEN "FCELL" ELSE "CELL"
        nodata      == IF EstFloat(est) THEN NaN ELSE Num(cell_nodata)
        n_outputs   == IF result.shape[1] > 1 THEN result.shape[3] ELSE 1
        indexes     == [i \in 1..n_outputs |-> i - 1]
        func        == IF Len(indexes) = 1 THEN "pred" ELSE "multi"
        r           == IF Len(indexes) > 1
                       THEN predict_multi(est, indexes, indexes, height, func, fault, 1)
                       ELSE predict_single(est, height, func, mtype, nodata, fault)
    IN  IF Fails(fault, "read", 1) \/ img.err # "none"
        THEN [err |-> "fatal", outputs |-> <<>>, given |-> <<>>, class_labels |-> <<>>,
              indexes |-> <<>>]
        ELSE IF Fails(fault, "predict", 1) \/ result.err # "none"
        THEN [err |-> "error", outputs |-> <<>>, given |-> <<>>, class_labels |-> <<>>,
              indexes |-> <<>>]
        ELSE [err |-> r.err, outputs |-> r.outputs, given |-> <<>>, class_labels |-> <<>>,
              indexes |-> indexes]

Max(s) == CHOOSE x \in {s[i] : i \in 1..Len(s)} : \A i \in 1..Len(s) : s[i] <= x

\* the class_labels argument
NoLabels == [some |-> FALSE, list |-> <<>>]
LabelsArg(l) == [some |-> TRUE, list |-> l]

\* class_labels = range(result.shape[2]) of the (class, row, column) probe
InferLabels(result) == [i \in 1..result.shape[3] |-> i - 1]

\* RasterStack.predict_proba(estimator, output, class_labels, height)
predict_proba(est, labels, height, fault) ==
    LET test_window == row_windows(1)[1]
        img         == read(loc, count, None, Window(test_window))
        result      == prob_fun(img, est)
        given       == IF labels.some THEN labels.list ELSE InferLabels(result)
        binary      == Len(given) = 2
        class_labels == IF binary THEN << Max(given) >> ELSE given
        indexes     == IF binary THEN <<1>> ELSE [i \in 1..Len(given) |-> i - 1]
        base        == IF labels.some THEN 0 ELSE 1
        r           == predict_multi(est, indexes, class_labels, height, "prob", fault, base)
    IN  IF ~labels.some /\ (Fails(fault, "read", 1) \/ img.err # "none")
        THEN [err |-> "fatal", outputs |-> <<>>, given |-> <<>>, class_labels |-> <<>>,
              indexes |-> <<>>]
        ELSE IF ~labels.some /\ (Fails(fault, "predict", 1) \/ result.err # "none")
        THEN [err |-> "error", outputs |-> <<>>, given |-> <<>>, class_labels |-> <<>>,
              indexes |-> <<>>]
        ELSE [err |-> r.err, outputs |-> r.outputs, given |-> given,
              class_labels |-> class_labels, indexes |-> indexes]

NoResult ==
    [err |-> "none", outputs |-> <<>>, given |-> <<>>, class_labels |-> <<>>, indexes |-> <<>>]
NoPred == [some |-> FALSE, kind |-> "none", est |-> "none", labels |-> NoLabels,
           height |-> None, fault |-> NoFault, r |-> NoResult]
NoWhole == [some |-> FALSE, est |-> "none", r |-> NoResult]

PredIdle == pred = NoPred /\ whole = NoWhole

\* the heights a caller passes: none, or 1..rows
Heights == {None} \cup {Row(h) : h \in 1..rows}

\* the class_labels a caller passes: none, three labels, two labels
LabelArgs == {NoLabels, LabelsArg(<<0, 1, 2>>), LabelsArg(<<3, 7>>)}

\* stack.predict(est, output) with no height and no failing collaborator
DoPredictWhole ==
    /\ ~whole.some /\ ~pred.some
    /\ \E est \in PredictEsts :
          whole' = [some |-> TRUE, est |-> est, r |-> predict(est, None, NoFault)]
    /\ UNCHANGED <<regvars, region, readvars, pred, ptvars, applied>>

\* stack.predict(est, output, height); after the call without height, the
\* same estimator is run again with the collaborators working
DoPredict ==
    /\ ~pred.some
    /\ \E est \in PredictEsts, height \in Heights, fault \in Faults :
          /\ whole.some => (est = whole.est /\ fault = NoFault)
          /\ pred' = [some |-> TRUE, kind |-> "predict", est |-> est, labels |-> NoLabels,
                   height |-> height, fault |-> fault, r |-> predict(est, height, fault)]
    /\ UNCHANGED <<regvars, region, readvars, whole, ptvars, applied>>

\* stack.predict_proba(est, output, class_labels, height)
DoPredictProba ==
    /\ ~pred.some /\ ~whole.some
    /\ \E est \in ProbaEsts, labels \in LabelArgs, height \in Heights, fault \in Faults :
          pred' = [some |-> TRUE, kind |-> "proba", est |-> est, labels |-> labels,
                   height |-> height, fault |-> fault,
                   r |-> predict_proba(est, labels, height, fault)]
    /\ UNCHANGED <<regvars, region, readvars, whole, ptvars, applied>>

----------------------------------------------------------------------------
(* The point extractor. *)

\* a NULL attribute of the point table (None)
Null == [k |-> "null", v |-> 0]

\* pandas: a missing value
IsNa(x) == x.k \in {"null", "nan"}

\* one line "cat|value" of v.what.rast -p for a point: '*' where the cell is null
Sample(src, pt) ==
    LET v == CellValue(src, pt.r, pt.c)
    IN  [cat |-> pt.key,
         star |-> (v.k = "nan" \/ (src.mtype = "CELL" /\ v = Num(cell_nodata))),
         v |-> v]

\* the lines of v.what.rast: one per point inside the computational region
what_rast(src) ==
    LET inside == SelectSeq(points, LAMBDA pt : pt.inreg)
    IN  [i \in 1..Len(inside) |-> Sample(src, inside[i])]

\* lines 824-828: X is nan and cat is 0 where the value is '*'
ParseLine(line) ==
    [x |-> IF line.star THEN NaN ELSE line.v,
     cat |-> IF line.star THEN 0 ELSE line.cat]

\* the (X, cat) frame of one layer
LayerFrame(src) ==
    LET lines == what_rast(src)
    IN  [i \in 1..Len(lines) |-> ParseLine(lines[i])]

\* the column of the point table a field names
FieldOf(pt, f) == IF f = "f1" THEN pt.f1 ELSE pt.f2

\* df.loc[:, fields + [key]] of the point table
TableFrame(fields) ==
    [i \in 1..Len(points) |->
        [key |-> Num(points[i].key),
         fields |-> [n \in 1..Len(fields) |-> FieldOf(points[i], fields[n])],
         feats |-> <<>>]]

\* the rows one row of df makes with the rows of X that carry its key
MatchRow(row, X) ==
    LET hits == SelectSeq(X, LAMBDA x : x.cat = row.key.v)
    IN  [i \in 1..Len(hits) |-> [row EXCEPT !.feats = Append(@, hits[i].x)]]

RECURSIVE Merge(_, _)
\* df.merge(X, on=key_col): an inner join in the order of df
Merge(df, X) ==
    IF df = <<>> THEN <<>> ELSE MatchRow(Head(df), X) \o Merge(Tail(df), X)

RECURSIVE MergeAll(_, _, _)
\* for X in Xs: df = df.merge(X, on=key_col)
MergeAll(df, l, i) ==
    IF i > Len(l) THEN df ELSE MergeAll(Merge(df, LayerFrame(l[i])), l, i + 1)

ReplaceCell(x) == IF x = Num(cell_nodata) THEN NaN ELSE x

\* df.replace(self._cell_nodata, np.nan)
ReplaceNodata(df) ==
    [i \in 1..Len(df) |->
        [key |-> ReplaceCell(df[i].key),
         fields |-> [n \in 1..Len(df[i].fields) |-> ReplaceCell(df[i].fields[n])],
         feats |-> [n \in 1..Len(df[i].feats) |-> ReplaceCell(df[i].feats[n])]]]

\* extract_points without line 850
KeepAllRows(df) == df

\* df.dropna(subset=fields)
DropNaFields(df) ==
    SelectSeq(df, LAMBDA row : \A n \in 1..Len(row.fields) : ~IsNa(row.fields[n]))

\* df.dropna()
DropNa(df) ==
    SelectSeq(df, LAMBDA row :
        /\ ~IsNa(row.key)
        /\ \A n \in 1..Len(row.fields) : ~IsNa(row.fields[n])
        /\ \A n \in 1..Len(row.feats) : ~IsNa(row.feats[n]))

NoFrame == [some |-> FALSE, fields |-> <<>>, na_rm |-> FALSE, as_df |-> FALSE,
            df |-> <<>>, X |-> <<>>, y |-> <<>>, cat |-> <<>>]

\* RasterStack.extract_points(vect_name, fields, na_rm, as_df): the table, or
\* the arrays X, y, cat
extract_points(fields, na_rm, as_df) ==
    LET joined == MergeAll(TableFrame(fields), loc, 1)
        kept   == DropNaFields(ReplaceNodata(joined))
        df     == IF na_rm THEN DropNa(kept) ELSE kept
    IN  IF as_df
        THEN [some |-> TRUE, fields |-> fields, na_rm |-> na_rm, as_df |-> TRUE,
              df |-> df, X |-> <<>>, y |-> <<>>, cat |-> <<>>]
        ELSE [some |-> TRUE, fields |-> fields, na_rm |-> na_rm, as_df |-> FALSE,
              df |-> <<>>,
              X |-> [i \in 1..Len(df) |-> df[i].feats],
              y |-> [i \in 1..Len(df) |-> df[i].fields],
              cat |-> [i \in 1..Len(df) |-> df[i].key]]

PointsIdle == points = <<>> /\ extracted = NoFrame

\* the fields a caller asks for
FieldLists == { <<"f1">>, <<"f2">>, <<"f1", "f2">> }

\* stack.extract_points(vect, fields, na_rm, as_df)
DoExtractPoints ==
    /\ ~extracted.some
    /\ \E fields \in FieldLists, na_rm \in BOOLEAN, as_df \in BOOLEAN :
          extracted' = extract_points(fields, na_rm, as_df)
    /\ UNCHANGED <<regvars, region, readvars, predvars, points, applied>>

----------------------------------------------------------------------------
(* The registry as a state machine. *)

\* the stack as the constructor leaves it
InitStack ==
    /\ \E rasters \in SeqsUpTo(MapNames, 0, MaxOther) :
          LET s == RasterStackNew(rasters)
          IN  /\ s.some
              /\ loc = s.loc
              /\ count = s.count
              /\ mtypes = s.mtypes
    /\ categorical_idx = <<>>
    /\ call = [op |-> "init", err |-> "none", in_place |-> TRUE]
    /\ returned = NoStack

Init ==
    /\ InitStack
    /\ rows = 1 /\ cols = 1
    /\ ReadIdle
    /\ PredIdle
    /\ PointsIdle
    /\ ApplyIdle

DoAppend == \E other \in SeqsUpTo(MapNames, 1, MaxOther) : append(other, TRUE)

DoDrop == \E labels \in SUBSET Labels : labels # {} /\ drop(labels, TRUE)

DoSetCategorical == \E cn \in SeqsUpTo(CatNames, 1, MaxOther) : categorical_setter(cn)

DoAppendCopy == \E other \in SeqsUpTo(MapNames, 1, MaxOther) : append(other, FALSE)

DoDropCopy == \E labels \in SUBSET Labels : labels # {} /\ drop(labels, FALSE)

Next == DoAppend \/ DoDrop \/ DoSetCategorical

Spec == Init /\ [][Next]_vars

\* row_windows alone, over every region size
InitWindows ==
    /\ InitStack
    /\ rows \in 1..MaxWinRows /\ cols \in 1..MaxCols
    /\ ReadIdle
    /\ PredIdle
    /\ PointsIdle
    /\ ApplyIdle

SpecWindows == InitWindows /\ [][DoRowWindows]_vars

\* the reader over every stack the constructor builds and every region
InitRead ==
    /\ InitStack
    /\ rows \in 1..MaxRows /\ cols \in 1..MaxCols
    /\ ReadIdle
    /\ PredIdle
    /\ PointsIdle
    /\ ApplyIdle

NextRead == DoReadAll \/ DoReadWindows \/ DoReadRow

SpecRead == InitRead /\ [][NextRead]_vars

\* the stacks predictions are made on
PredictStacks ==
    { <<>>, << <<"a">> >>, << <<"a">>, <<"b">> >>, << <<"b">>, <<"c", ".", "d">> >>,
      << <<"a", "@", "P">>, <<"c", ".", "d">> >> }

\* one call of predict or predict_proba, after an optional predict without height
InitPredict ==
    /\ \E rasters \in PredictStacks :
          LET st == RasterStackNew(rasters)
          IN  loc = st.loc /\ count = st.count /\ mtypes = st.mtypes
    /\ categorical_idx = <<>>
    /\ call = [op |-> "init", err |-> "none", in_place |-> TRUE]
    /\ returned = NoStack
    /\ rows \in 1..MaxPredRows /\ cols \in 1..MaxPredCols
    /\ ReadIdle
    /\ PredIdle
    /\ PointsIdle
    /\ ApplyIdle

NextPredict == DoPredictWhole \/ DoPredict \/ DoPredictProba

SpecPredict == InitPredict /\ [][NextPredict]_vars

\* the stacks points are extracted from
PointStacks ==
    { <<>>, << <<"a">>, <<"b">> >>, << <<"b">>, <<"c", ".", "d">> >> }

\* where a point lies: on a cell of the 2 x 1 region, or outside the region
PointPlaces ==
    { [inreg |-> TRUE, r |-> 0, c |-> 0], [inreg |-> TRUE, r |-> 1, c |-> 0],
      [inreg |-> FALSE, r |-> 0, c |-> 0] }

\* the attributes f1, f2 of a point: present, NULL, or the integer sentinel
PointAttrs ==
    { [f1 |-> Num(1), f2 |-> Num(2)], [f1 |-> Null, f2 |-> Num(2)],
      [f1 |-> Num(1), f2 |-> Null], [f1 |-> Num(cell_nodata), f2 |-> Num(2)] }

\* one call of extract_points on a vector map of 1..MaxPoints points whose
\* keys count up from 0 or from 1
InitPoints ==
    /\ \E rasters \in PointStacks :
          LET st == RasterStackNew(rasters)
          IN  loc = st.loc /\ count = st.count /\ mtypes = st.mtypes
    /\ categorical_idx = <<>>
    /\ call = [op |-> "init", err |-> "none", in_place |-> TRUE]
    /\ returned = NoStack
    /\ rows = 2 /\ cols = 1
    /\ ReadIdle
    /\ PredIdle
    /\ \E n \in 1..MaxPoints, first \in {0, 1} :
          \E place \in [1..n -> PointPlaces], attrs \in [1..n -> PointAttrs] :
              points = [i \in 1..n |->
                          [key |-> first + i - 1, inreg |-> place[i].inreg,
                           r |-> place[i].r, c |-> place[i].c,
                           f1 |-> attrs[i].f1, f2 |-> attrs[i].f2]]
    /\ extracted = NoFrame
    /\ ApplyIdle

SpecPoints == InitPoints /\ [][DoExtractPoints]_vars

\* the prediction functions on every window of the stacks predictions are made on
InitApply == InitPredict

NextApply == DoPredFun \/ DoProbFun \/ DoPredfunMultioutput

SpecApply == InitApply /\ [][NextApply]_vars

\* the registry with the calls that return a new stack as well
NextCopy == DoAppend \/ DoDrop \/ DoAppendCopy \/ DoDropCopy

SpecCopy == Init /\ [][NextCopy]_vars

----------------------------------------------------------------------------
(* Claims about the registry. *)

Unique(s) == \A i, j \in 1..Len(s) : s[i] = s[j] => i = j

\* C1: after any sequence of append/drop calls the number of names equals the
\* stack's count and every name in the stack is unique.
C1_NamesMatchCount == Len(names(loc)) = count /\ Unique(names(loc))

\* C2: a call rejected for a colliding short name, or a categorical setter given
\* an unknown name, leaves the name-to-handle map, the count, the type map and
\* the categorical indices as they were before the call.
C2_NoPartialState ==
    [][ (call'.err = "ValueError" \/ (call'.op = "categorical" /\ call'.err = "fatal"))
        => /\ loc' = loc
           /\ count' = count
           /\ mtypes' = mtypes
           /\ categorical_idx' = categorical_idx ]_vars

----------------------------------------------------------------------------
(* Claims about the windowed reader. *)

\* C3: for R >= 1 rows and a positive height h, row_windows(height=h) yields
\* half-open windows that start at 0, end at R, are contiguous and increasing,
\* each of height h except possibly the last, which is clipped to R; with
\* h >= R it yields the one window (0, R).
C3_RowWindows ==
    win.some =>
        LET ws == win.list
            h  == win.height
            n  == Len(win.list)
        IN  /\ n >= 1
            /\ ws[1][1] = 0
            /\ ws[n][2] = rows
            /\ \A i \in 1..n : ws[i][1] < ws[i][2]
            /\ \A i \in 1..(n - 1) : ws[i + 1][1] = ws[i][2] /\ ws[i][2] - ws[i][1] = h
            /\ ws[n][2] - ws[n][1] <= h
            /\ (h >= rows => ws = << <<0, rows>> >>)

\* row_windows(height=3) over a 10-row raster yields (0,3),(3,6),(6,9),(9,10)
C3_Witness ==
    /\ rows = 10
    /\ win = [some |-> TRUE, height |-> 3,
              list |-> << <<0, 3>>, <<3, 6>>, <<6, 9>>, <<9, 10>> >>]

RECURSIVE ConcatRows(_, _)
\* band b of the arrays of list, concatenated along the row axis
ConcatRows(list, b) ==
    IF list = <<>> THEN <<>> ELSE Head(list)[b] \o ConcatRows(Tail(list), b)

\* C4: reading every window of row_windows(h), 1 <= h <= rows, and concatenating
\* the results along the row axis gives the values and the mask of one read()
\* of the entire raster.
C4_WindowsEqualFull ==
    (chunks.some /\ data.some /\ ~data.row.some /\ ~data.window.some) =>
        /\ data.err = "none"
        /\ \A i \in 1..Len(chunks.list) : chunks.list[i].err = "none"
        /\ \A b \in 1..count :
              /\ ConcatRows([i \in 1..Len(chunks.list) |-> chunks.list[i].values], b)
                    = data.values[b]
              /\ ConcatRows([i \in 1..Len(chunks.list) |-> chunks.list[i].mask.arr], b)
                    = data.mask.arr[b]

\* several windows, the last one clipped, over a stack with masked cells
C4_Witness ==
    /\ chunks.some /\ data.some /\ data.err = "none"
    /\ Len(chunks.list) > 1
    /\ rows % chunks.height # 0
    /\ count = 2
    /\ \E i \in 1..rows, j \in 1..cols : data.mask.arr[2][i][j]
    /\ \E i \in 1..rows, j \in 1..cols : ~data.mask.arr[2][i][j]

MaskOk(r) ==
    /\ r.err = "none"
    /\ ~r.mask.nomask
    /\ Len(r.mask.arr) = r.shape[1]
    /\ Len(r.values) = r.shape[1]
    /\ \A b \in 1..r.shape[1] :
          /\ Len(r.mask.arr[b]) = r.shape[2]
          /\ \A i \in 1..r.shape[2] :
                /\ Len(r.mask.arr[b][i]) = r.shape[3]
                /\ \A j \in 1..r.shape[3] :
                      r.mask.arr[b][i][j] \in BOOLEAN
                      /\ r.mask.arr[b][i][j] =
                            (\/ r.values[b][i][j] = Num(cell_nodata)
                             \/ r.values[b][i][j].k # "num")

\* C5: the result of read() carries a boolean mask array of the data's shape
\* (bands, rows, cols), never a scalar, and a mask cell is True exactly where
\* the value read equals the no-data sentinel or is not finite.
C5_MaskShape ==
    /\ data.some =>
          /\ MaskOk(data)
          /\ data.shape[1] = count /\ data.shape[3] = cols
          /\ ~data.row.some => data.shape = <<count, rows, cols>>
    /\ chunks.some =>
          \A i \in 1..Len(chunks.list) :
              /\ MaskOk(chunks.list[i])
              /\ chunks.list[i].shape[1] = count
              /\ chunks.list[i].shape[3] = cols

\* a 2-layer stack over a 4x4 region, layer 1 all 5, layer 2 with the sentinel
\* in row 0 only: the mask is True on row 0 of band 2 and False elsewhere
C5_Witness ==
    /\ rows = 4 /\ cols = 4 /\ count = 2
    /\ data.some /\ data.err = "none"
    /\ \A i \in 1..4, j \in 1..4 : data.values[1][i][j] = Num(5)
    /\ \A i \in 1..4, j \in 1..4 : (data.values[2][i][j] = Num(cell_nodata)) = (i = 1)
    /\ \A b \in 1..2, i \in 1..4, j \in 1..4 : data.mask.arr[b][i][j] = (b = 2 /\ i = 1)

----------------------------------------------------------------------------
(* Claims about the prediction dispatcher. *)

\* the single-output estimators whose output is a function of the pixel
SingleEsts == {"one", "sum"}

\* C6: for a single-output estimator that is a function of each pixel's input,
\* predict with a batch height (1..rows) and predict with no height write the
\* same output raster: the same rows in the same order, the same values at
\* unmasked pixels and the fill value at the same pixels.
C6_WindowedEqualsWhole ==
    ( /\ pred.some /\ whole.some
      /\ pred.kind = "predict" /\ pred.height.some /\ pred.fault = NoFault
      /\ pred.est = whole.est /\ pred.est \in SingleEsts ) =>
        /\ pred.r.err = whole.r.err
        /\ Len(pred.r.outputs) = Len(whole.r.outputs)
        /\ \A i \in 1..Len(pred.r.outputs) :
              /\ pred.r.outputs[i].name = whole.r.outputs[i].name
              /\ pred.r.outputs[i].mtype = whole.r.outputs[i].mtype
              /\ pred.r.outputs[i].rows = whole.r.outputs[i].rows
              /\ Len(pred.r.outputs[i].rows) = rows
        /\ (count > 0 => pred.r.err = "none" /\ Len(pred.r.outputs) = 1)

\* a windowed run of several windows, the last one clipped, writing both
\* predicted and fill cells, next to the run without height
C6_Witness ==
    /\ pred.some /\ whole.some /\ pred.kind = "predict" /\ pred.est = "sum"
    /\ pred.height.some /\ pred.height.a = 2 /\ rows = 3
    /\ pred.r.err = "none" /\ whole.r.err = "none"
    /\ Len(pred.r.outputs) = 1
    /\ \E i \in 1..rows, j \in 1..cols : pred.r.outputs[1].rows[i][j] = NaN
    /\ \E i \in 1..rows, j \in 1..cols : pred.r.outputs[1].rows[i][j] # NaN

\* C7: for probability output with exactly two inferred classes, predict_proba
\* produces exactly one output raster, named with the larger of the two labels
\* and holding the estimator's second probability column.
C7_BinaryOneRaster ==
    ( /\ pred.some /\ pred.kind = "proba" /\ ~pred.labels.some
      /\ pred.fault = NoFault /\ Len(pred.r.given) = 2 ) =>
        /\ Len(pred.r.outputs) = 1
        /\ pred.r.outputs[1].name = RasterName(OutputName, Max(pred.r.given))
        /\ Len(pred.r.outputs[1].rows) = rows
        /\ LET full == read(loc, count, None, None)
               flat == FilledFlat(Flatten(full.values, full.shape),
                                  Flatten(full.mask.arr, full.shape))
           IN  \A i \in 1..rows, j \in 1..cols :
                  pred.r.outputs[1].rows[i][j]
                      \in {NaN, EstProba(pred.est, flat[(i - 1) * cols + j])[2]}

\* C8: every output raster handle opened for writing by predict or predict_proba
\* is closed when control returns to the caller, on every exit path.
C8_OutputsClosed ==
    pred.some => \A i \in 1..Len(pred.r.outputs) : ~pred.r.outputs[i].open

----------------------------------------------------------------------------
(* Claims about the point extractor. *)

\* the keys of the rows extract_points returned, in either return form
ReturnedKeys ==
    IF extracted.as_df
    THEN {extracted.df[i].key : i \in 1..Len(extracted.df)}
    ELSE {extracted.cat[i] : i \in 1..Len(extracted.cat)}

\* the response values extract_points returned, row by row
ReturnedFields ==
    IF extracted.as_df
    THEN [i \in 1..Len(extracted.df) |-> extracted.df[i].fields]
    ELSE extracted.y

\* the feature values extract_points returned for the rows of a key
ReturnedFeats(key) ==
    IF extracted.as_df
    THEN {extracted.df[i].feats : i \in {n \in 1..Len(extracted.df) : extracted.df[n].key = key}}
    ELSE {extracted.X[i] : i \in {n \in 1..Len(extracted.cat) : extracted.cat[n] = key}}

MissingField(pt, fields) == \E n \in 1..Len(fields) : FieldOf(pt, fields[n]) = Null

\* C9: every row of the joined table whose value is missing in any requested
\* response field is absent from the result of extract_points, for na_rm True
\* and False and for both return forms.
C9_MissingResponseDropped ==
    extracted.some =>
        /\ \A i \in 1..Len(points) :
              MissingField(points[i], extracted.fields)
                  => Num(points[i].key) \notin ReturnedKeys
        /\ \A i \in 1..Len(ReturnedFields) :
              \A n \in 1..Len(ReturnedFields[i]) : ~IsNa(ReturnedFields[i][n])

\* with na_rm False, a sampled point with a missing response is left out while
\* another point of the same map is returned
C9_Witness ==
    /\ extracted.some /\ ~extracted.na_rm /\ count = 2
    /\ ReturnedKeys # {}
    /\ \E i \in 1..Len(points) :
          /\ points[i].inreg /\ points[i].r = 1
          /\ MissingField(points[i], extracted.fields)
          /\ Num(points[i].key) \notin ReturnedKeys

\* C10: with na_rm False, a point whose response fields are all present but
\* whose sampled value is missing for some layer is kept in the output, with a
\* missing feature value.
C10_MissingFeatureKept ==
    (extracted.some /\ ~extracted.na_rm) =>
        \A i \in 1..Len(points) :
            ( /\ points[i].inreg
              /\ \A n \in 1..Len(extracted.fields) :
                    FieldOf(points[i], extracted.fields[n]) \notin {Null, Num(cell_nodata)}
              /\ \E b \in 1..Len(loc) : Sample(loc[b], points[i]).star )
            => /\ Num(points[i].key) \in ReturnedKeys
               /\ \E f \in ReturnedFeats(Num(points[i].key)) :
                     \E b \in 1..Len(f) : f[b] = NaN

----------------------------------------------------------------------------
(* Further claims about the reader. *)

\* C11: for every row index i from 0 to rows-1, read(row=i) returns an array of
\* shape (count, 1, cols) holding row i of each band; only a call with neither
\* row nor window reads the entire raster.
C11_ReadRow ==
    (data.some /\ data.row.some /\ Len(loc) = count) =>
        /\ data.err = "none"
        /\ data.shape = <<count, 1, cols>>
        /\ \A b \in 1..count : data.values[b] = <<RowOf(loc[b], data.row.a)>>

\* C14: reading a stack with zero layers fails with an error; read never
\* returns an empty (zero-band) array.
C14_EmptyReadFails ==
    /\ (data.some /\ count = 0) => data.err # "none"
    /\ data.some => (data.err # "none" \/ data.shape[1] > 0)
    /\ chunks.some =>
          \A i \in 1..Len(chunks.list) :
              chunks.list[i].err # "none" \/ chunks.list[i].shape[1] > 0

----------------------------------------------------------------------------
(* Further claims about the registry. *)

\* the stack a call with in_place=False would return is what the original
\* stack holds after the step
SameAsCopy(cp) ==
    cp.some => /\ call'.err = "none"
               /\ names(loc') = names(cp.loc)
               /\ count' = cp.count
               /\ mtypes' = cp.mtypes

\* C12: append and drop called with in_place=False return a new stack holding
\* the extended (resp. reduced) layer list and leave the original stack's
\* layers, order, count and type map unchanged; called with in_place=True they
\* produce in the original stack the same layers in the same order that the
\* in_place=False call would return.
C12_CopyContract ==
    [][ /\ \A other \in SeqsUpTo(MapNames, 1, MaxOther) :
              /\ append(other, FALSE) =>
                    /\ UNCHANGED <<loc, count, mtypes>>
                    /\ returned'.some => names(returned'.loc) = names(loc) \o names(RasterStackNew(other).loc)
              /\ append(other, TRUE) => SameAsCopy(RasterStackNew(names(loc) \o other))
        /\ \A labels \in SUBSET Labels :
              /\ drop(labels, FALSE) =>
                    /\ UNCHANGED <<loc, count, mtypes>>
                    /\ returned'.some => names(returned'.loc) = subset_names(labels)
              /\ drop(labels, TRUE) => SameAsCopy(RasterStackNew(subset_names(labels)))
      ]_vars

----------------------------------------------------------------------------
(* Further claims about prediction. *)

\* C13: when no batch height is given, predict and predict_proba read the
\* entire raster, call the estimator once and write complete output rasters
\* covering every row, in every output mode; the call does not fail on a
\* readable stack with a working estimator.
C13_WholeRaster ==
    ( /\ pred.some /\ ~pred.height.some /\ pred.fault = NoFault
      /\ count > 0 /\ Len(loc) = count ) =>
        /\ pred.r.err = "none"
        /\ Len(pred.r.outputs) >= 1
        /\ \A i \in 1..Len(pred.r.outputs) :
              /\ Len(pred.r.outputs[i].rows) = rows
              /\ ~pred.r.outputs[i].open

\* C15: in all three prediction functions, for every window and every pixel,
\* the output pixel is masked in every output band/class/target if and only if
\* at least one input band is masked at that pixel, including windows in which
\* every pixel is masked and windows in which none is.
C15_MaskFromInput ==
    (applied.some /\ applied.out.err = "none") =>
        \A c \in 1..applied.out.shape[1] :
            \A i \in 1..applied.img.shape[2], j \in 1..applied.img.shape[3] :
                applied.out.mask[c][i][j]
                    = (\E b \in 1..applied.img.shape[1] : applied.img.mask.arr[b][i][j])

\* the number of targets the estimator yields per pixel
NTargets(est) == Len(EstPredict(est, <<>>))

\* C16: predict chooses its output mode once, from a probe of the estimator on
\* one window: an estimator yielding one value per pixel selects single-output
\* mode and one output raster, and an estimator yielding a vector of k > 1
\* targets per pixel selects multi-output mode and produces k output bands, one
\* per target.
C16_ModeFromProbe ==
    ( /\ pred.some /\ pred.kind = "predict"
      /\ pred.fault = NoFault /\ count > 0 /\ Len(loc) = count ) =>
        /\ pred.r.err = "none"
        /\ Len(pred.r.indexes) = NTargets(pred.est)
        /\ Len(pred.r.outputs) = NTargets(pred.est)

\* the number of class-probability columns the estimator returns
NClasses(est) == Len(EstProba(est, <<>>))

\* C17: when predict_proba is called without class labels, the inferred labels
\* are 0..C-1 where C is the number of class-probability columns the estimator
\* returns on the probe window, for every raster width; the number of inferred
\* classes does not depend on the raster's row or column count.
C17_LabelsFromClasses ==
    ( /\ pred.some /\ pred.kind = "proba" /\ ~pred.labels.some
      /\ pred.fault = NoFault /\ count > 0 /\ Len(loc) = count ) =>
        pred.r.given = [i \in 1..NClasses(pred.est) |-> i - 1]

====
